---- MODULE Spec2Model ----
(***************************************************************************)
(* The Reddit client example: RedditModel (redditmodel.cpp), a table model *)
(* over the "hot" listing, and RedditWrapper (redditwrapper.cpp), the      *)
(* OAuth2 session it fetches through.  Everything runs on one event-loop   *)
(* thread, so every slot and every connected lambda is one atomic step.    *)
(***************************************************************************)
EXTENDS Integers, Sequences, FiniteSets, TLC

\* ------------------------------------------------------------------ bounds
\* GETs issued to the listing endpoint in one run.
MaxFetches == 2
\* Elements of data.children in one response body.
MaxChildren == 2
\* Calls of RedditModel::grant() in one run past the first one (the constructor's
\* for an adapter built with a client id, the client's otherwise).
MaxGrants == 1
\* Calls of RedditWrapper::subscribeToLiveUpdates() in one run.
MaxSubscriptions == 2

\* ------------------------------------------------------------- JSON values
\* A QJsonValue is a record tagged with its type.
JUndefined == [type |-> "undefined"]
JNull == [type |-> "null"]
JString(s) == [type |-> "string", s |-> s]
JArray(items) == [type |-> "array", items |-> items]
JObject(fields) == [type |-> "object", fields |-> fields]
\* The default-constructed QJsonObject.
EmptyObject == JObject([k \in {} |-> JUndefined])

\* QJsonValue::isObject / isArray, QJsonDocument::isObject
isObject(v) == v.type = "object"
isArray(v) == v.type = "array"
\* QJsonValue::toObject, QJsonDocument::object: the empty object for a non-object
toObject(v) == IF isObject(v) THEN v ELSE EmptyObject
\* QJsonValue::toArray: the empty array for a non-array
toArray(v) == IF isArray(v) THEN v.items ELSE << >>
\* QJsonValue::toString: the null string for a non-string
toString(v) == IF v.type = "string" THEN v.s ELSE ""
\* QJsonObject::value: Undefined for a missing key
value(obj, key) == IF key \in DOMAIN obj.fields THEN obj.fields[key] ELSE JUndefined

\* ------------------------------------------------------------------ inputs
\* A link post titled t, as the listing endpoint shapes it.
Thread(t) == JObject([kind |-> JString("t3"), data |-> JObject([title |-> JString(t)])])

\* The remote listing: two well-formed posts, an object without a data object,
\* and an element that is no object.
Feed ==
    << Thread("A"), Thread("B"), JObject([kind |-> JString("more")]), JString("x") >>

\* What data.children can be: a page of the listing, of at most MaxChildren elements.
ChildrenArrays ==
    { SubSeq(Feed, i, j) : i \in 1..Len(Feed), j \in 0..Len(Feed) } \cap
    UNION { [1..n -> { Feed[i] : i \in 1..Len(Feed) }] : n \in 0..MaxChildren }

Listing(kind, children) == JObject([kind |-> JString(kind), data |-> JObject([children |-> children])])

\* The documents QJsonDocument::fromJson can yield for a response body: listings
\* with every children array, and the four violations of the envelope.
Documents ==
    { Listing("Listing", JArray(c)) : c \in ChildrenArrays }
    \cup { JNull,
           Listing("t3", JArray(<< Thread("A") >>)),
           JObject([kind |-> JString("Listing"), data |-> JString("x")]),
           Listing("Listing", JNull) }

NoError == "NoError"
ErrorStrings == { "Connection refused", "Host requires authentication" }

\* A finished QNetworkReply: error(), errorString(), and the document of readAll().
Replies ==
    { [error |-> "NetworkError", errorString |-> m, document |-> JNull] : m \in ErrorStrings }
    \cup { [error |-> NoError, errorString |-> "", document |-> d] : d \in Documents }

\* QAbstractOAuth::Status.  RefreshingToken is left out: nothing here calls
\* refreshAccessToken().
Granted == "Granted"
Statuses == { "NotAuthenticated", "TemporaryCredentialsReceived", Granted }

DisplayRole == "DisplayRole"
Roles == { DisplayRole, "EditRole" }

\* ------------------------------------------------------------------- state
VARIABLES
    debugBuild,    \* Q_ASSERT is compiled in (QT_NO_DEBUG is not defined)
    withClientId,  \* constructed by RedditModel(clientId, parent)
    threads,       \* RedditModel::threads
    connections,   \* connections of RedditWrapper::authenticated to RedditModel::update
    status,        \* oauth2.status()
    firings,       \* emissions of RedditWrapper::authenticated so far
    requests,      \* the GETs issued so far; reply i answers requests[i]
    pending,       \* the replies whose finished() has not been emitted yet
    completions,   \* the replies handled so far, in order
    lastReply,     \* the reply handled last
    emitted,       \* the signals the model has emitted so far, in order
    overlapping,   \* a reply has been handled while another fetch was outstanding
    observed,      \* rowCount() as the slots run by the last reply's signals read it
    aborted,       \* a Q_ASSERT has failed: the process is gone
    destroyed,     \* the RedditModel has been destroyed
    subscriptions, \* the GETs subscribeToLiveUpdates() has issued so far
    livePending,   \* their replies whose finished() has not been emitted yet
    liveLast,      \* the reply of a subscription handled last
    subscribed,    \* the urls RedditWrapper::subscribed has been emitted with, in order
    logged         \* the messages written by qCritical(), in order

vars == << debugBuild, withClientId, threads, connections, status, firings,
           requests, pending, completions, lastReply, emitted, overlapping, observed,
           aborted, destroyed, subscriptions, livePending, liveLast, subscribed, logged >>

\* The state of the subscriptions to live updates.
liveVars == << subscriptions, livePending, liveLast, subscribed, logged >>

\* --------------------------------------------------------- the table model
\* RedditModel::rowCount
rowCount == Len(threads)

\* columnCount returning what rowCount returns.
columnCountOfRows == Len(threads)

\* RedditModel::columnCount
columnCount == IF Len(threads) # 0 THEN 1 ELSE 0

\* QAbstractTableModel::index: the index of (row, column), invalid unless hasIndex
InvalidIndex == [valid |-> FALSE, row |-> -1, column |-> -1]
index(row, column) ==
    IF row >= 0 /\ column >= 0 /\ row < rowCount /\ column < columnCount
    THEN [valid |-> TRUE, row |-> row, column |-> column]
    ELSE InvalidIndex

\* QModelIndex::isValid
isValid(idx) == idx.valid

\* The results of data(): the invalid QVariant(), a QVariant holding a string, and
\* the failure of the call (Q_ASSERT, or QList::at out of range).
QVariant == [kind |-> "invalid"]
QVariantString(s) == [kind |-> "string", s |-> s]
Failure == [kind |-> "failure"]

\* QList::at on threads
at(i) == threads[i + 1]

\* data() without the test of index.isValid().
dataUnchecked(idx, role) ==
    IF role = DisplayRole
    THEN IF idx.row < 0 \/ idx.row >= Len(threads) THEN Failure
         ELSE LET childrenObject == at(idx.row)
                  dataObject == toObject(value(childrenObject, "data"))
              IN IF debugBuild /\ ~isObject(value(childrenObject, "data"))
                 THEN Failure
                 ELSE QVariantString(toString(value(dataObject, "title")))
    ELSE QVariant

\* data() taking Q_UNUSED(role) at its word: the title under every role.
dataAnyRole(idx, role) ==
    IF ~isValid(idx) THEN QVariant
    ELSE IF idx.row < 0 \/ idx.row >= Len(threads) THEN Failure
    ELSE LET childrenObject == at(idx.row)
             dataObject == toObject(value(childrenObject, "data"))
         IN IF debugBuild /\ ~isObject(value(childrenObject, "data"))
            THEN Failure
            ELSE QVariantString(toString(value(dataObject, "title")))

\* RedditModel::data.  In a build without Q_ASSERT a record whose data is no
\* object reads as the empty object.
data(idx, role) ==
    IF ~isValid(idx) THEN QVariant
    ELSE IF role = DisplayRole
    THEN IF idx.row < 0 \/ idx.row >= Len(threads) THEN Failure
         ELSE LET childrenObject == at(idx.row)
                  dataObject == toObject(value(childrenObject, "data"))
              IN IF debugBuild /\ ~isObject(value(childrenObject, "data"))
                 THEN Failure
                 ELSE QVariantString(toString(value(dataObject, "title")))
    ELSE QVariant

\* The spec's cellValue(rowIndex): data() on the index of (rowIndex, 0).
cellValue(row, role) == data(index(row, 0), role)

\* ---------------------------------------------------------- the session
newUrl == "https://oauth.reddit.com/new"
hotUrl == "https://oauth.reddit.com/hot"

\* The GET going to the listing of new posts.
requestNewThreads == [url |-> newUrl]

\* RedditWrapper::requestHotThreads: one GET of hotUrl through oauth2, whatever
\* the status of the session.
requestHotThreads == [url |-> hotUrl]

\* The lambda emitting authenticated() for every status past NotAuthenticated.
emitsOnAnyProgress(s) == s # "NotAuthenticated"

\* The lambda RedditWrapper connects to oauth2.statusChanged: whether it emits
\* authenticated() for this status.
emitsAuthenticated(s) == s = Granted

\* RedditModel::update, called n times in a row: each call issues one GET and
\* connects the lambda to its reply.
update(n) ==
    /\ requests' = requests \o [i \in 1..n |-> requestHotThreads]
    /\ pending' = pending \cup (Len(requests) + 1 .. Len(requests) + n)

\* ------------------------------------------------ the completion of a reply
ErrorSignal(m) == [signal |-> "error", errorString |-> m, first |-> -1, last |-> -1]
RowsAboutToBeInserted(first, last) ==
    [signal |-> "rowsAboutToBeInserted", errorString |-> "", first |-> first, last |-> last]
RowsInserted(first, last) ==
    [signal |-> "rowsInserted", errorString |-> "", first |-> first, last |-> last]

\* What one run of the lambda leaves behind.
Outcome(list, signals, failed) == [threads |-> list, signals |-> signals, aborted |-> failed]

\* The first argument of beginInsertRows taken one row early.
firstRowOneEarly(list, childrenArray) == Len(list) - 1

\* The first argument of beginInsertRows: the row the batch starts at.
firstRow(list, childrenArray) == Len(list)

\* The last argument of beginInsertRows, one too many.
lastRowPastTheEnd(list, childrenArray) == Len(childrenArray) + Len(list)

\* The last argument of beginInsertRows without the rows already held.
lastRowFromChildren(list, childrenArray) == Len(childrenArray) - 1

\* The last argument of beginInsertRows: the row the batch ends at.
lastRow(list, childrenArray) == Len(childrenArray) + Len(list) - 1

\* threads.append, skipping a child the list already holds.
appendChildUnlessHeld(list, childValue) ==
    IF \E i \in 1..Len(list) : list[i] = toObject(childValue)
    THEN list
    ELSE Append(list, toObject(childValue))

\* threads.prepend in place of threads.append.
prependChild(list, childValue) == << toObject(childValue) >> \o list

\* threads.append(childValue.toObject())
appendChild(list, childValue) == Append(list, toObject(childValue))

\* The loop over childrenArray: each child is appended in turn; with Q_ASSERT
\* compiled in, the loop stops at the first child that is no object.
RECURSIVE appendChildren(_, _)
appendChildren(list, childrenArray) ==
    IF childrenArray = << >> THEN Outcome(list, << >>, FALSE)
    ELSE IF debugBuild /\ ~isObject(Head(childrenArray)) THEN Outcome(list, << >>, TRUE)
    ELSE appendChildren(appendChild(list, Head(childrenArray)), Tail(childrenArray))

\* The four assertions on the envelope, in a build that compiles them in.
envelopeAsserts(document) ==
    LET rootObject == toObject(document)
        dataValue == value(rootObject, "data")
        childrenValue == value(toObject(dataValue), "children")
    IN /\ isObject(document)
       /\ toString(value(rootObject, "kind")) = "Listing"
       /\ isObject(dataValue)
       /\ isArray(childrenValue)

\* The error branch, clearing the list as well.
errorBranchClears(reply) == Outcome(<< >>, << ErrorSignal(reply.errorString) >>, FALSE)

\* The branch taken when reply->error() is not NoError: emit error(errorString()).
errorBranch(reply) == Outcome(threads, << ErrorSignal(reply.errorString) >>, FALSE)

\* The empty array going on to beginInsertRows and endInsertRows.
emptyBranchInserts(list) ==
    Outcome(list, << RowsAboutToBeInserted(Len(list), Len(list) - 1),
                     RowsInserted(Len(list), Len(list) - 1) >>, FALSE)

\* The branch taken when childrenArray.isEmpty(): return.
emptyBranch(list) == Outcome(list, << >>, FALSE)

\* The lambda update() connects to QNetworkReply::finished.
finished(reply) ==
    IF reply.error # NoError
    THEN errorBranch(reply)
    ELSE LET document == reply.document
             rootObject == toObject(document)
             dataObject == toObject(value(rootObject, "data"))
             childrenArray == toArray(value(dataObject, "children"))
             first == firstRow(threads, childrenArray)
             last == lastRow(threads, childrenArray)
             loop == appendChildren(threads, childrenArray)
         IN IF debugBuild /\ ~envelopeAsserts(document)
            THEN Outcome(threads, << >>, TRUE)
            ELSE IF childrenArray = << >>
            THEN emptyBranch(threads)
            ELSE IF loop.aborted
            THEN Outcome(loop.threads, << RowsAboutToBeInserted(first, last) >>, TRUE)
            ELSE Outcome(loop.threads,
                         << RowsAboutToBeInserted(first, last), RowsInserted(first, last) >>,
                         FALSE)

\* The reply left among those whose finished() is still to come.
keepsReply(r) == pending

\* reply->deleteLater(): a QNetworkReply emits finished() once and is disposed of
\* by the lambda, so it is no longer among the replies that may finish.
deleteLater(r) == pending \ { r }

\* The children a response body carries, whatever else is wrong with it.
childrenOf(reply) ==
    toArray(value(toObject(value(toObject(reply.document), "data")), "children"))

\* endInsertRows() called inside the loop: its slots run after the first append.
sizeAfterFirstAppend(list, loop) == Len(list) + 1

\* The size of threads when endInsertRows() emits rowsInserted: the loop is over.
sizeAtEndInsertRows(list, loop) == Len(loop.threads)

\* rowCount() as the slots connected to the signals of the lambda read it, one
\* value for each signal: error and rowsAboutToBeInserted are emitted before
\* anything is appended, rowsInserted by endInsertRows().
observedBy(reply) ==
    LET out == finished(reply)
        loop == appendChildren(threads, childrenOf(reply))
    IN [i \in 1..Len(out.signals) |->
            IF out.signals[i].signal = "rowsInserted"
            THEN sizeAtEndInsertRows(threads, loop)
            ELSE Len(threads)]

\* ----------------------------------------------------------------- actions
\* No reply has been handled yet.
NoReply == [error |-> NoError, errorString |-> "", document |-> JUndefined]

\* The state after either constructor: RedditModel(parent) leaves the session
\* alone, RedditModel(clientId, parent) calls grant().
Init ==
    /\ debugBuild \in BOOLEAN
    /\ withClientId \in BOOLEAN
    /\ threads = << >>
    /\ connections = IF withClientId THEN 1 ELSE 0
    /\ status = "NotAuthenticated"
    /\ firings = 0
    /\ requests = << >>
    /\ pending = {}
    /\ completions = << >>
    /\ lastReply = NoReply
    /\ emitted = << >>
    /\ overlapping = FALSE
    /\ observed = << >>
    /\ aborted = FALSE
    /\ destroyed = FALSE
    /\ subscriptions = << >>
    /\ livePending = {}
    /\ liveLast = NoReply
    /\ subscribed = << >>
    /\ logged = << >>

\* RedditModel::grant, called by the client: restarts the authorization flow and
\* connects authenticated() to update() once more.
grant ==
    /\ ~aborted /\ ~destroyed
    /\ connections <= MaxGrants
    /\ connections' = connections + 1
    /\ UNCHANGED << debugBuild, withClientId, threads, status, firings, requests,
                    pending, completions, lastReply, emitted, overlapping, observed,
                    aborted, destroyed, liveVars >>

\* oauth2 emits statusChanged(s) (a flow has been started and the status differs);
\* on Granted the wrapper emits authenticated() and every connection runs update().
StatusChanged(s) ==
    /\ ~aborted /\ ~destroyed
    /\ connections >= 1
    /\ s # status
    /\ status' = s
    /\ IF emitsAuthenticated(s)
       THEN /\ Len(requests) + connections <= MaxFetches
            /\ firings' = firings + 1
            /\ update(connections)
       ELSE UNCHANGED << firings, requests, pending >>
    /\ UNCHANGED << debugBuild, withClientId, threads, connections, completions,
                    lastReply, emitted, overlapping, observed, aborted, destroyed, liveVars >>

\* update() invoked on its own, outside the connection to authenticated(): a
\* caller's requestUpdate(), whatever the status of the session.
RequestUpdate ==
    /\ ~aborted /\ ~destroyed
    /\ Len(requests) + 1 <= MaxFetches
    /\ update(1)
    /\ UNCHANGED << debugBuild, withClientId, threads, connections, status, firings,
                    completions, lastReply, emitted, overlapping, observed, aborted,
                    destroyed, liveVars >>

\* The record kept of one handled reply: whether it was an error, how many
\* children its body carried, the length of threads before it, and whether the
\* lambda ran to its end.
Completion(reply, out) ==
    [error |-> reply.error # NoError,
     children |-> IF reply.error # NoError THEN 0 ELSE Len(childrenOf(reply)),
     oldSize |-> Len(threads),
     aborted |-> out.aborted]

\* The reply of request r finishes with some content and the lambda runs.
Finished(r, reply) ==
    /\ ~aborted
    /\ r \in pending
    /\ LET out == finished(reply)
       IN /\ threads' = out.threads
          /\ emitted' = emitted \o out.signals
          /\ aborted' = out.aborted
          /\ completions' = Append(completions, Completion(reply, out))
    /\ lastReply' = reply
    /\ observed' = observedBy(reply)
    /\ overlapping' = (overlapping \/ Cardinality(pending) >= 2)
    /\ pending' = deleteLater(r)
    /\ UNCHANGED << debugBuild, withClientId, connections, status, firings, requests,
                    destroyed, liveVars >>

\* The rows a view may ask for: those held, and one on either side of them.
Rows == -1 .. Len(threads)

\* A view queries the cell of a row under a role; the query is const, and a
\* failed Q_ASSERT in it ends the process.
Data(row, role) ==
    /\ ~aborted /\ ~destroyed
    /\ aborted' = (cellValue(row, role) = Failure)
    /\ UNCHANGED << debugBuild, withClientId, threads, connections, status, firings,
                    requests, pending, completions, lastReply, emitted, overlapping,
                    observed, destroyed, liveVars >>

\* The replies outliving the model that issued them.
repliesOutlive == pending

\* The replies left once the model is gone: none.  redditWrapper is a member of
\* the model and oauth2 a member of the wrapper, and a reply of oauth2.get() is a
\* child of the QNetworkAccessManager oauth2 owns, so the replies are deleted
\* with the model, and the lambdas connected to them with the replies.
repliesAfterDestruction == {}

\* The model is destroyed (~RedditModel is the implicit one): its members go,
\* and with them the connections of authenticated() and the outstanding
\* replies.  The lambda itself has no guard: it captures this and is connected
\* without a context object, so only the death of its reply keeps it from running.
Destroy ==
    /\ ~aborted /\ ~destroyed
    /\ destroyed' = TRUE
    /\ connections' = 0
    /\ pending' = repliesAfterDestruction
    /\ livePending' = {}
    /\ UNCHANGED << debugBuild, withClientId, threads, status, firings, requests,
                    completions, lastReply, emitted, overlapping, observed, aborted,
                    subscriptions, liveLast, subscribed, logged >>

Next ==
    \/ grant
    \/ \E s \in Statuses : StatusChanged(s)
    \/ RequestUpdate
    \/ \E r \in 1..MaxFetches, reply \in Replies : Finished(r, reply)
    \/ \E row \in Rows, role \in Roles : Data(row, role)

Spec == Init /\ [][Next]_vars

\* The runs that may end with the destruction of the model.
NextLifetime == Next \/ Destroy

SpecLifetime == Init /\ [][NextLifetime]_vars

\* ------------------------------------------- the subscription to live updates
liveThreadsUrl == "https://oauth.reddit.com/live/XXXX/about.json"

\* QJsonValue::isString
isString(v) == v.type = "string"

\* The strings QUrl can parse, and one it cannot (a host that opens a bracket
\* and never closes it).
WellFormedUrls == { "wss://ws.reddit.com/a", "wss://ws.reddit.com/b" }
MalformedUrl == "wss://["

\* QUrl(const QString &): the url of a string that parses, the empty invalid
\* url for the empty string and for one that does not.
QUrl(s) == IF s \in WellFormedUrls THEN [valid |-> TRUE, url |-> s]
           ELSE [valid |-> FALSE, url |-> ""]

\* The description of a live thread, with w as its websocket_url.
LiveAbout(w) ==
    JObject([kind |-> JString("LiveUpdateEvent"), data |-> JObject([websocket_url |-> w])])

\* The documents a reply to the subscription can carry: descriptions with a
\* url, with a string that is no url, with the empty string and with no string,
\* and bodies without a data object.
LiveDocuments ==
    { LiveAbout(JString(u)) : u \in WellFormedUrls \cup { MalformedUrl, "" } }
    \cup { LiveAbout(JNull), JNull, JObject([data |-> JString("x")]) }

LiveReplies ==
    { [error |-> "NetworkError", errorString |-> m, document |-> JNull] : m \in ErrorStrings }
    \cup { [error |-> NoError, errorString |-> "", document |-> d] : d \in LiveDocuments }

\* What one run of the lambda of subscribeToLiveUpdates() leaves behind: the
\* emissions of subscribed, the messages logged, and whether a Q_ASSERT failed.
LiveOutcome(urls, messages, failed) ==
    [subscribed |-> urls, logged |-> messages, aborted |-> failed]

\* websocket_url as the lambda reads it from the document.
websocketUrlValue(document) ==
    value(toObject(value(toObject(document), "data")), "websocket_url")

\* The three assertions of the lambda, in a build that compiles them in.
liveAsserts(document) ==
    /\ isObject(document)
    /\ isObject(value(toObject(document), "data"))
    /\ isString(websocketUrlValue(document)) /\ toString(websocketUrlValue(document)) # ""

\* The error branch going on to emit subscribed.
liveErrorBranchSubscribes(reply) ==
    LiveOutcome(<< QUrl(toString(websocketUrlValue(reply.document))) >>,
                << reply.errorString >>, FALSE)

\* The branch taken when reply->error() is not NoError: log it and return.
liveErrorBranch(reply) == LiveOutcome(<< >>, << reply.errorString >>, FALSE)

\* The lambda subscribeToLiveUpdates() connects to QNetworkReply::finished.
liveFinished(reply) ==
    IF reply.error # NoError
    THEN liveErrorBranch(reply)
    ELSE IF debugBuild /\ ~liveAsserts(reply.document)
    THEN LiveOutcome(<< >>, << >>, TRUE)
    ELSE LiveOutcome(<< QUrl(toString(websocketUrlValue(reply.document))) >>, << >>, FALSE)

\* The state of the table model, which the subscription leaves alone.
modelVars == << withClientId, threads, connections, status, firings, requests, pending,
               completions, lastReply, emitted, overlapping, observed, destroyed >>

\* RedditWrapper::subscribeToLiveUpdates: one GET of liveThreadsUrl, and the
\* lambda connected to its reply.
SubscribeToLiveUpdates ==
    /\ ~aborted /\ ~destroyed
    /\ Len(subscriptions) < MaxSubscriptions
    /\ subscriptions' = Append(subscriptions, [url |-> liveThreadsUrl])
    /\ livePending' = livePending \cup { Len(subscriptions) + 1 }
    /\ UNCHANGED << debugBuild, aborted, modelVars, liveLast, subscribed, logged >>

\* The reply of subscription r finishes with some content and the lambda runs.
LiveFinished(r, reply) ==
    /\ ~aborted
    /\ r \in livePending
    /\ LET out == liveFinished(reply)
       IN /\ subscribed' = subscribed \o out.subscribed
          /\ logged' = logged \o out.logged
          /\ aborted' = out.aborted
    /\ liveLast' = reply
    /\ livePending' = livePending \ { r }
    /\ UNCHANGED << debugBuild, modelVars, subscriptions >>

NextLive ==
    \/ SubscribeToLiveUpdates
    \/ \E r \in 1..MaxSubscriptions, reply \in LiveReplies : LiveFinished(r, reply)

\* RedditWrapper used for its live updates.
SpecLive == Init /\ [][NextLive]_vars

\* ------------------------------------------------------------------ claims
\* The completions that ran to their end without a transport error.
Successful(c) == ~c.error /\ ~c.aborted

RECURSIVE SumChildren(_)
SumChildren(log) ==
    IF log = << >> THEN 0
    ELSE (IF Successful(Head(log)) THEN Head(log).children ELSE 0) + SumChildren(Tail(log))

\* The signals a step has added to emitted.
NewSignals == SubSeq(emitted', Len(emitted) + 1, Len(emitted'))
CountOf(signals, name) == Cardinality({ i \in 1..Len(signals) : signals[i].signal = name })

\* C1: while the process lives, rowCount() is the sum of the children counts of
\* the successful completions so far, and no step ever decreases rowCount().
C1_AppendOnlyMonotonicity ==
    /\ [](~aborted => rowCount = SumChildren(completions))
    /\ [][rowCount' >= rowCount]_vars

\* Two successful completions with children have been handled.
C1_Witness ==
    /\ ~aborted
    /\ Cardinality({ i \in 1..Len(completions) :
                       Successful(completions[i]) /\ completions[i].children > 0 }) = 2
    /\ rowCount > MaxChildren

\* The title a child carries, if it is an object whose data is an object with a
\* string title.
HasTitle(child) ==
    /\ isObject(child)
    /\ isObject(value(child, "data"))
    /\ value(value(child, "data"), "title").type = "string"
TitleOf(child) == value(value(child, "data"), "title").s


\* The step is the handling of a reply, the one lastReply' records.
Handled == \E r \in pending : Finished(r, lastReply')

C3_ErrorNoOp ==
    [][(Handled /\ lastReply'.error # NoError)
       => /\ threads' = threads
          /\ NewSignals = << ErrorSignal(lastReply'.errorString) >>
          /\ ~aborted'
    ]_vars

\* A transport error has been handled on a list that held rows.
C3_Witness ==
    /\ threads # << >>
    /\ completions # << >>
    /\ completions[Len(completions)].error
    /\ completions[Len(completions)].oldSize > 0
    /\ emitted[Len(emitted)].signal = "error"

\* C4: a successful completion whose children array is empty changes neither
\* threads nor rowCount() and emits no signal.
C4_EmptyBatchNoOp ==
    [][( /\ Handled
         /\ lastReply'.error = NoError
         /\ ~aborted'
         /\ childrenOf(lastReply') = << >> )
       => /\ threads' = threads
          /\ rowCount' = rowCount
          /\ NewSignals = << >>
    ]_vars

\* An empty listing has been handled on a list that held rows.
C4_Witness ==
    /\ ~aborted
    /\ debugBuild
    /\ completions # << >>
    /\ Successful(completions[Len(completions)])
    /\ completions[Len(completions)].children = 0
    /\ completions[Len(completions)].oldSize > 0
    /\ rowCount = completions[Len(completions)].oldSize

\* C5: every step leaves the list it found as a prefix of the list it leaves:
\* a record keeps its index and its content, and new records go after the end.
C5_PositionStability ==
    [][/\ Len(threads') >= Len(threads)
       /\ SubSeq(threads', 1, Len(threads)) = threads]_vars

\* Two batches have been appended, the first still in front.
C5_Witness ==
    /\ Len(completions) = 2
    /\ Successful(completions[1]) /\ completions[1].children > 0
    /\ Successful(completions[2]) /\ completions[2].oldSize = completions[1].children
    /\ completions[2].children > 0
    /\ threads[1] = Thread("B")

\* C6: columnCount() is 0 when rowCount() is 0 and 1 otherwise, and an adapter
\* that has handled no completion yet has no rows and no columns.
C6_DegenerateColumnCount ==
    /\ columnCount = (IF rowCount = 0 THEN 0 ELSE 1)
    /\ completions = << >> => (rowCount = 0 /\ columnCount = 0)

\* The adapter holds several rows and reports one column.
C6_Witness == ~aborted /\ rowCount >= 2 /\ columnCount = 1

\* C7: for a row below 0 or at or past rowCount(), cellValue returns the invalid
\* QVariant under every role, in every state.
C7_InvalidRowAbsent ==
    \A row \in -1 .. rowCount + 1, role \in Roles :
        (row < 0 \/ row >= rowCount) => cellValue(row, role) = QVariant

\* Rows are held, and the rows just outside them read as absent.
C7_Witness ==
    /\ ~aborted
    /\ rowCount >= 1
    /\ cellValue(rowCount, DisplayRole) = QVariant
    /\ cellValue(-1, DisplayRole) = QVariant
    /\ cellValue(rowCount - 1, DisplayRole) # QVariant

C9_NoFetchWithoutAuthorization ==
    [][(RequestUpdate /\ status # Granted) => UNCHANGED << requests, pending, threads >>]_vars

\* C9, amended: update() issues one GET of hotUrl whenever it is called, Granted
\* or not, and the call leaves threads and the emitted signals alone; only the
\* adapter's own calls, made through authenticated(), are all made in a step that
\* leaves the session Granted.
C9_UnguardedUpdate ==
    [][/\ RequestUpdate =>
            /\ Len(requests') = Len(requests) + 1
            /\ requests'[Len(requests')].url = hotUrl
            /\ pending' = pending \cup { Len(requests') }
            /\ threads' = threads
            /\ emitted' = emitted
       /\ (Len(requests') > Len(requests) /\ ~RequestUpdate) => status' = Granted
       /\ firings' > firings => status' = Granted]_vars

\* A GET is out although authenticated() has never been emitted.
C9_Witness ==
    /\ firings = 0
    /\ status # Granted
    /\ Len(requests) >= 1
    /\ requests[1].url = hotUrl
    /\ 1 \in pending

\* C10, as claimed: for an adapter constructed with a client id, every emission
\* of authenticated() causes exactly one call of update(), that is one GET.
C10_OneUpdatePerFiring ==
    [][(withClientId /\ firings' = firings + 1) => Len(requests') = Len(requests) + 1]_vars

\* C11, as claimed: an adapter constructed without a client id starts with no
\* rows and no columns, and every emission of authenticated() causes exactly one
\* call of update(), that is one GET.
C11_UnauthenticatedStart ==
    /\ ~withClientId => (rowCount = 0 /\ columnCount = 0)
    /\ [][(~withClientId /\ firings' = firings + 1)
            => Len(requests') = Len(requests) + 1]_vars

\* C12: rowsInserted is emitted only once every child of the batch has been
\* appended: the slots of a batch of k children landing on N rows read N at
\* rowsAboutToBeInserted and N+k at rowsInserted, never a size in between; and a
\* list left holding part of a batch (the process failed inside the loop) is
\* never seen, since no callback and no query runs after that.
C12_BatchAtomicity ==
    /\ [](rowCount # SumChildren(completions) => (aborted /\ ~ENABLED Next))
    /\ [][( /\ Handled
            /\ lastReply'.error = NoError
            /\ Len(childrenOf(lastReply')) > 0 )
          => \A N \in { Len(threads) } :
               LET k == Len(childrenOf(lastReply'))
               IN /\ \A i \in 1..Len(observed') : observed'[i] \in { N, N + k }
                  /\ ~aborted' =>
                        /\ NewSignals[Len(NewSignals)].signal = "rowsInserted"
                        /\ observed' = << N, N + k >>
                        /\ observed'[2] = rowCount'
       ]_vars

\* A batch of two has landed behind a batch of one: its slots read 1, then 3.
C12_Witness ==
    /\ ~aborted
    /\ observed = << 1, 3 >>
    /\ rowCount = 3

Inserted == SelectSeq(emitted, LAMBDA e : e.signal = "rowsInserted")

\* Two of the ranges notified so far have a row in common.
RangesOverlap ==
    \E i, j \in 1..Len(Inserted) :
        /\ i < j
        /\ Inserted[i].first <= Inserted[j].last
        /\ Inserted[j].first <= Inserted[i].last

\* C14, as claimed: fetches that were outstanding at the same time land batches
\* whose notified ranges overlap.
C14_OverlappingRanges ==
    (overlapping /\ Len(Inserted) >= 2) => RangesOverlap

\* C14, amended: fetches outstanding at the same time can both land, but the
\* replies are handled one after the other and each takes its range from the
\* size of the list at that moment: the range a handling notifies starts right
\* behind the rows held, past every range notified before, so no two notified
\* ranges overlap.
C14_SerializedBatches ==
    /\ [](~RangesOverlap)
    /\ [][( /\ Handled
            /\ overlapping'
            /\ ~aborted'
            /\ lastReply'.error = NoError
            /\ Len(childrenOf(lastReply')) > 0 )
          => \A N \in { Len(threads) } :
               /\ NewSignals[Len(NewSignals)] =
                      RowsInserted(N, N + Len(childrenOf(lastReply')) - 1)
               /\ \A i \in 1..Len(emitted) :
                      emitted[i].signal = "rowsInserted" => emitted[i].last = N - 1
                                                           \/ emitted[i].last < N - 1
       ]_vars

\* Two fetches were outstanding together and both have landed: the second batch
\* lies behind the first, and the list holds the same post twice.
C14_Witness ==
    /\ ~aborted
    /\ overlapping
    /\ Len(requests) = 2 /\ pending = {}
    /\ Inserted = << RowsInserted(0, 0), RowsInserted(1, 2) >>
    /\ threads = << Thread("A"), Thread("A"), Thread("B") >>

C16_FetchIsAsynchronous ==
    /\ [](\A i \in 1..Len(requests) : requests[i] = [url |-> hotUrl])
    /\ [][/\ RequestUpdate =>
                /\ Len(requests') = Len(requests) + 1
                /\ Len(requests') \in pending'
                /\ Len(completions') = Len(completions)
          /\ Len(requests') > Len(requests) =>
                /\ \A i \in Len(requests) + 1 .. Len(requests') : i \in pending'
                /\ threads' = threads
                /\ rowCount' = rowCount
                /\ columnCount' = columnCount
                /\ emitted' = emitted
          /\ (threads' # threads \/ emitted' # emitted) => Handled
       ]_vars

\* A second fetch, issued by a caller and not by authenticated(), is
\* outstanding while the list holds the batch of the first.
C16_Witness ==
    /\ ~aborted
    /\ firings = 0
    /\ Len(requests) = 2
    /\ pending = { 2 }
    /\ requests[2].url = hotUrl
    /\ Inserted = << RowsInserted(0, 1) >>
    /\ rowCount = 2 /\ columnCount = 1

\* The body breaks the envelope of a listing: the root is no object, kind is not
\* "Listing", data is no object, or children is no array.
EnvelopeViolation(reply) == ~envelopeAsserts(reply.document)

\* The body breaks the shape of a listing: its envelope, or a child is no object.
ShapeViolation(reply) ==
    \/ EnvelopeViolation(reply)
    \/ \E i \in 1..Len(childrenOf(reply)) : ~isObject(childrenOf(reply)[i])

\* C17, as claimed: handling a reply without transport error whose body breaks
\* the shape of a listing ends in the failure of an assertion, with no error
\* and no rowsInserted emitted, and with threads untouched when it is the
\* envelope that is broken.
C17_ShapeViolationIsFatal ==
    [][(Handled /\ lastReply'.error = NoError /\ ShapeViolation(lastReply'))
       => /\ aborted'
          /\ CountOf(NewSignals, "error") = 0
          /\ CountOf(NewSignals, "rowsInserted") = 0
          /\ EnvelopeViolation(lastReply') => threads' = threads
    ]_vars

\* C18: the ranges of the rowsInserted signals emitted so far are non-empty,
\* the first starts at row 0 and each next one starts right behind the one
\* before it (so they are pairwise disjoint and in increasing order), and while
\* the process lives the last one ends at row rowCount()-1: together they are
\* exactly the rows 0 .. rowCount()-1.
C18_RangesPartitionRows ==
    /\ \A i \in 1..Len(Inserted) : Inserted[i].first <= Inserted[i].last
    /\ Len(Inserted) > 0 => Inserted[1].first = 0
    /\ \A i \in 1 .. Len(Inserted) - 1 : Inserted[i + 1].first = Inserted[i].last + 1
    /\ ~aborted => rowCount = (IF Len(Inserted) = 0 THEN 0
                               ELSE Inserted[Len(Inserted)].last + 1)

\* Two batches have been notified: the rows 0 .. 1 first, then row 2.
C18_Witness ==
    /\ ~aborted
    /\ Inserted = << RowsInserted(0, 1), RowsInserted(2, 2) >>
    /\ rowCount = 3

\* C19, as claimed: where the assertions are compiled in, every record that the
\* lambda of update() has appended without failing one has a data field that
\* is an object, so that data() under DisplayRole fails on no row of
\* 0 .. rowCount()-1.
C19_AcceptedRecordsAreReadable ==
    (debugBuild /\ ~aborted) =>
        \A row \in 0 .. rowCount - 1 :
            /\ isObject(value(at(row), "data"))
            /\ cellValue(row, DisplayRole) # Failure

\* The step is the handling of the reply of a subscription, the one liveLast'
\* records.
LiveHandled == \E r \in livePending : LiveFinished(r, liveLast')

\* C20: a call of subscribeToLiveUpdates() issues one GET, of liveThreadsUrl,
\* and emits nothing itself; the handling of its reply takes that reply out for
\* good and emits subscribed at most once: not at all for a transport error,
\* which is logged and nothing more, and exactly once, with the url made of
\* websocket_url, for a reply without error whose body has a data object with a
\* non-empty string as websocket_url.
C20_SubscribedAtMostOnce ==
    /\ [](\A i \in 1..Len(subscriptions) : subscriptions[i] = [url |-> liveThreadsUrl])
    /\ [](Len(subscribed) + Len(logged)
            <= Len(subscriptions) - Cardinality(livePending))
    /\ [][/\ SubscribeToLiveUpdates =>
                /\ Len(subscriptions') = Len(subscriptions) + 1
                /\ subscribed' = subscribed
          /\ Len(subscribed') <= Len(subscribed) + 1
          /\ subscribed' # subscribed => LiveHandled
          /\ \A r \in 1..Len(subscriptions) : r \notin livePending => r \notin livePending'
          /\ LiveHandled => Cardinality(livePending') = Cardinality(livePending) - 1
          /\ (LiveHandled /\ liveLast'.error # NoError) =>
                /\ subscribed' = subscribed
                /\ logged' = Append(logged, liveLast'.errorString)
                /\ ~aborted'
          /\ (LiveHandled /\ liveLast'.error = NoError /\ liveAsserts(liveLast'.document)) =>
                LET w == toString(websocketUrlValue(liveLast'.document))
                IN /\ w # ""
                   /\ subscribed' = Append(subscribed, QUrl(w))
                   /\ w \in WellFormedUrls => subscribed'[Len(subscribed')].url = w
                   /\ logged' = logged
                   /\ ~aborted'
       ]_vars

\* Two subscriptions have been answered, one by a transport error and one by a
\* description with a url: one message logged, one subscribed emitted.
C20_Witness ==
    /\ ~aborted
    /\ Len(subscriptions) = 2 /\ livePending = {}
    /\ logged = << "Connection refused" >>
    /\ subscribed = << [valid |-> TRUE, url |-> "wss://ws.reddit.com/b"] >>

====
